---------------------------- MODULE Spec2Model ----------------------------
(***************************************************************************)
(* Model of the tax-advisor scheduler's tool functions (src/functions.py): *)
(* parse_relative_date, get_calendar_events and create_calendar_event,     *)
(* together with the calendar and e-mail backends they call.               *)
(*                                                                         *)
(* Strings that the code inspects character by character (date tokens,     *)
(* start_time) are tuples of one-character strings.  A naive local         *)
(* datetime is a record [day, hour, minute, second, microsecond] where day *)
(* counts calendar days and day % 7 is datetime.weekday() (0 = Monday).    *)
(***************************************************************************)
EXTENDS Integers, Sequences, FiniteSets, TLC

VARIABLES
    now,              \* what datetime.now() returns (naive local time)
    utcoffset,        \* local UTC offset of the process, in minutes
    calendar,         \* calendar backend: entries of 'primary', by start time
    outbox,           \* e-mail backend: messages accepted by users().messages().send
    pc,               \* position of the tool call ("idle": none, "done": ended)
    arguments,        \* params.arguments of the running / last tool call
    locals,           \* local variables of the running / last tool call
    log,              \* calls made by this tool call, in order
    results,          \* strings handed to params.result_callback by this tool call
    returned,         \* <<return value>> of the last tool call (<<>> while running)
    raised,           \* TRUE when an exception left the tool function
    calendar0,        \* calendar as it was when this tool call started
    invocations,      \* tool calls started so far
    date_description, \* argument of a direct parse_relative_date call
    window,           \* (day_start, day_end) it returned
    history           \* size of the calendar at the start of the conversation,
                      \* and how many tool calls returned the success result

vars == <<now, utcoffset, calendar, outbox, pc, arguments, locals, log, results,
          returned, raised, calendar0, invocations, date_description, window,
          history>>

None == "None"

-----------------------------------------------------------------------------
(* Bounds of the model *)

\* datetime.now() is drawn from NowDays consecutive days starting at FirstDay
NowDays == 7
FirstDay == 7
\* tool calls per behaviour
MaxInvocations == 2

-----------------------------------------------------------------------------
(* str.lower() and str.strip() *)

UpperCase == <<"A","B","C","D","E","F","G","H","I","J","K","L","M",
               "N","O","P","Q","R","S","T","U","V","W","X","Y","Z">>
LowerCase == <<"a","b","c","d","e","f","g","h","i","j","k","l","m",
               "n","o","p","q","r","s","t","u","v","w","x","y","z">>
Whitespace == {" ", "\t", "\n", "\r"}

\* the lower-case letter of each upper-case letter
ToLower ==
    [c \in {UpperCase[i] : i \in DOMAIN UpperCase} |->
        LowerCase[CHOOSE i \in DOMAIN UpperCase : UpperCase[i] = c]]

LowerChar(c) == IF c \in DOMAIN ToLower THEN ToLower[c] ELSE c

Lower(s) == [i \in DOMAIN s |-> LowerChar(s[i])]

RECURSIVE LStrip(_)
LStrip(s) ==
    IF s = <<>> THEN s
    ELSE IF Head(s) \in Whitespace THEN LStrip(Tail(s)) ELSE s

RECURSIVE RStrip(_)
RStrip(s) ==
    IF s = <<>> THEN s
    ELSE IF s[Len(s)] \in Whitespace THEN RStrip(SubSeq(s, 1, Len(s) - 1)) ELSE s

Strip(s) == RStrip(LStrip(s))

-----------------------------------------------------------------------------
(* datetime and timedelta *)

DateTime(d, h, m, s, us) ==
    [day |-> d, hour |-> h, minute |-> m, second |-> s, microsecond |-> us]

weekday(dt) == dt.day % 7

\* dt + timedelta(days=n): the time of day of a naive datetime is kept
AddDays(dt, n) == [dt EXCEPT !.day = dt.day + n]

\* minutes since day 0, 00:00 (seconds and microseconds apart)
TotalMinutes(dt) == dt.day * 1440 + dt.hour * 60 + dt.minute

\* dt + timedelta(minutes=n)
AddMinutes(dt, n) ==
    LET t == TotalMinutes(dt) + n
    IN  [dt EXCEPT !.day = t \div 1440,
                   !.hour = (t % 1440) \div 60,
                   !.minute = t % 60]

\* dt.replace(hour=0, minute=0, second=0, microsecond=0)
MidnightKeepsSeconds(dt) == [dt EXCEPT !.hour = 0, !.minute = 0]
Midnight(dt) ==
    [dt EXCEPT !.hour = 0, !.minute = 0, !.second = 0, !.microsecond = 0]

-----------------------------------------------------------------------------
(* parse_relative_date *)

today == <<"t","o","d","a","y">>
nowTok == <<"n","o","w">>
tomorrow == <<"t","o","m","o","r","r","o","w">>
yesterday == <<"y","e","s","t","e","r","d","a","y">>
nextWeek == <<"n","e","x","t"," ","w","e","e","k">>
nextweek == <<"n","e","x","t","w","e","e","k">>
nextPrefix == <<"n","e","x","t"," ">>
monday == <<"m","o","n","d","a","y">>
tuesday == <<"t","u","e","s","d","a","y">>
wednesday == <<"w","e","d","n","e","s","d","a","y">>
thursday == <<"t","h","u","r","s","d","a","y">>
friday == <<"f","r","i","d","a","y">>
saturday == <<"s","a","t","u","r","d","a","y">>
sunday == <<"s","u","n","d","a","y">>

\* the lists of the elif chain, in the order of their weekday numbers 0..6
BareWeekdayOnly(i) ==
    {<<monday, tuesday, wednesday, thursday, friday, saturday, sunday>>[i + 1]}
WeekdayTokens(i) ==
    LET name == <<monday, tuesday, wednesday, thursday, friday, saturday, sunday>>[i + 1]
    IN  {nextPrefix \o name, name}

\* days_ahead = W - now.weekday(); if days_ahead <= 0: days_ahead += 7
DaysAheadSameDay(W, wd) ==
    LET days_ahead == W - wd
    IN  IF days_ahead < 0 THEN days_ahead + 7 ELSE days_ahead
DaysAhead(W, wd) ==
    LET days_ahead == W - wd
    IN  IF days_ahead <= 0 THEN days_ahead + 7 ELSE days_ahead

\* the else branch: "Default to today if we can't parse it"
DefaultTomorrow(n) == AddDays(n, 1)
DefaultTarget(n) == n

\* the if / elif chain that computes target_date
TargetDate(date_lower, n) ==
    IF date_lower \in {today, nowTok} THEN n
    ELSE IF date_lower = tomorrow THEN AddDays(n, 1)
    ELSE IF date_lower = yesterday THEN AddDays(n, -1)
    ELSE IF date_lower \in {nextWeek, nextweek} THEN AddDays(n, 7)
    ELSE IF \E W \in 0..6 : date_lower \in WeekdayTokens(W)
         THEN LET target == CHOOSE W \in 0..6 : date_lower \in WeekdayTokens(W)
              IN  AddDays(n, DaysAhead(target, weekday(n)))
    ELSE DefaultTarget(n)

parse_relative_date(description, n) ==
    LET date_lower == Strip(Lower(description))
        target_date == TargetDate(date_lower, n)
        day_start == Midnight(target_date)
        day_end == AddDays(day_start, 1)
    IN  <<day_start, day_end>>

-----------------------------------------------------------------------------
(* start_time.split(':'), int() and datetime.replace(hour=, minute=) *)

Digits == <<"0","1","2","3","4","5","6","7","8","9">>
IsDigit(c) == \E i \in DOMAIN Digits : Digits[i] = c
DigitValue(c) == (CHOOSE i \in DOMAIN Digits : Digits[i] = c) - 1

\* str.split(sep): the pieces between the separators, at least one piece
RECURSIVE Split(_, _)
Split(s, sep) ==
    IF \A i \in DOMAIN s : s[i] # sep THEN <<s>>
    ELSE LET k == CHOOSE i \in DOMAIN s :
                      s[i] = sep /\ \A j \in 1..(i - 1) : s[j] # sep
         IN  <<SubSeq(s, 1, k - 1)>> \o Split(SubSeq(s, k + 1, Len(s)), sep)

\* what int() accepts: optional surrounding whitespace, an optional sign,
\* then digits, single underscores allowed between digits
Unsigned(s) ==
    LET t == Strip(s)
    IN  IF t # <<>> /\ Head(t) \in {"+", "-"} THEN Tail(t) ELSE t
IsIntLiteral(s) ==
    LET u == Unsigned(s)
    IN  /\ u # <<>>
        /\ \A i \in DOMAIN u : IsDigit(u[i]) \/ u[i] = "_"
        /\ IsDigit(u[1]) /\ IsDigit(u[Len(u)])
        /\ \A i \in 1..(Len(u) - 1) : ~(u[i] = "_" /\ u[i + 1] = "_")

RECURSIVE DigitsValue(_)
DigitsValue(u) ==
    IF u = <<>> THEN 0
    ELSE IF u[Len(u)] = "_" THEN DigitsValue(SubSeq(u, 1, Len(u) - 1))
    ELSE 10 * DigitsValue(SubSeq(u, 1, Len(u) - 1)) + DigitValue(u[Len(u)])
IntValue(s) ==
    LET t == Strip(s)
    IN  IF Head(t) = "-" THEN 0 - DigitsValue(Unsigned(s)) ELSE DigitsValue(Unsigned(s))

ValueError == [ok |-> FALSE, hour |-> 0, minute |-> 0]

\* hour, minute = map(int, start_time.split(':')) followed by
\* day_start.replace(hour=hour, minute=minute): any ValueError on the way
\* (a non-integer piece, not exactly two pieces, a field out of range)
ParseTimeFirstTwo(start_time) ==
    LET parts == Split(start_time, ":")
    IN  IF Len(parts) < 2 THEN ValueError
        ELSE IF ~IsIntLiteral(parts[1]) \/ ~IsIntLiteral(parts[2]) THEN ValueError
        ELSE IF IntValue(parts[1]) \notin 0..23 \/ IntValue(parts[2]) \notin 0..59
             THEN ValueError
        ELSE [ok |-> TRUE, hour |-> IntValue(parts[1]), minute |-> IntValue(parts[2])]
ParseTimeBusinessHours(start_time) ==
    LET parts == Split(start_time, ":")
    IN  IF Len(parts) # 2 THEN ValueError
        ELSE IF ~IsIntLiteral(parts[1]) \/ ~IsIntLiteral(parts[2]) THEN ValueError
        ELSE IF IntValue(parts[1]) \notin 9..16 \/ IntValue(parts[2]) \notin 0..59
             THEN ValueError
        ELSE [ok |-> TRUE, hour |-> IntValue(parts[1]), minute |-> IntValue(parts[2])]
ParseTime(start_time) ==
    LET parts == Split(start_time, ":")
    IN  IF Len(parts) # 2 THEN ValueError
        ELSE IF ~IsIntLiteral(parts[1]) \/ ~IsIntLiteral(parts[2]) THEN ValueError
        ELSE IF IntValue(parts[1]) \notin 0..23 \/ IntValue(parts[2]) \notin 0..59
             THEN ValueError
        ELSE [ok |-> TRUE, hour |-> IntValue(parts[1]), minute |-> IntValue(parts[2])]

-----------------------------------------------------------------------------
(* dict.get, strftime and the result strings *)

\* d.get(key, default)
Get(d, key, default) == IF key \in DOMAIN d THEN d[key] ELSE default

\* strftime('%Y-%m-%dT%H:%M:%S'): the date and time of day down to the second
Rfc3339(dt) ==
    [day |-> dt.day, hour |-> dt.hour, minute |-> dt.minute, second |-> dt.second]

\* strftime('%I:%M %p')
Format12(dt) ==
    <<IF dt.hour % 12 = 0 THEN 12 ELSE dt.hour % 12, dt.minute,
      IF dt.hour < 12 THEN "AM" ELSE "PM">>

\* A result string is the literal pieces of its f-string (text) and the
\* values interpolated between them (values).
InvalidTimeResult(start_time) ==
    [text |-> <<"Invalid time format: ", ". Please use HH:MM format (e.g., '14:00')">>,
     values |-> <<start_time>>]

ErrorCreatingResult(e) ==
    [text |-> <<"Error creating calendar event: ">>, values |-> <<e>>]

ErrorRetrievingResult(e) ==
    [text |-> <<"Error retrieving calendar events: ">>, values |-> <<e>>]

SuccessResult(title, event_start, event_end, email_sent, customer_email) ==
    [text |-> <<"Event created successfully: '", "' on ", " from ", " to ">>
              \o (IF email_sent THEN <<". Confirmation email sent to ">> ELSE <<>>),
     values |-> <<title, event_start.day, Format12(event_start), Format12(event_end)>>
                \o (IF email_sent THEN <<customer_email>> ELSE <<>>)]

\* json.dumps(filtered_events, indent=2)
EventsResult(filtered_events) ==
    [text |-> <<"json">>, values |-> <<filtered_events>>]

Contains(result, piece) == \E i \in DOMAIN result.text : result.text[i] = piece

-----------------------------------------------------------------------------
(* The time zone label of create_calendar_event *)

\* int(x / y): truncation toward zero
FloorDiv(x, y) == x \div y
TruncDiv(x, y) == IF x >= 0 THEN x \div y ELSE 0 - ((0 - x) \div y)

\* offset_hours = int(local_offset.total_seconds() / 3600) and the Etc/GMT
\* label with its sign reversed
LocalTzStr(offset_minutes) ==
    LET offset_hours == TruncDiv(offset_minutes, 60)
    IN  IF offset_hours >= 0
        THEN [prefix |-> "Etc/GMT-", hours |-> offset_hours]
        ELSE [prefix |-> "Etc/GMT+", hours |-> 0 - offset_hours]

-----------------------------------------------------------------------------
(* The calendar backend: events().list and events().insert on 'primary' *)

maxResults == 50

\* the instant (minutes, UTC) at which an entry starts / ends; an all-day
\* entry carries a 'date' and covers that day of the calendar's local zone
Instant(t, off) ==
    IF "dateTime" \in DOMAIN t THEN t.dateTime ELSE t.date * 1440 - off

\* Etc/GMT-h is h hours east of UTC
LabelOffset(label) ==
    IF label.prefix = "Etc/GMT-" THEN 60 * label.hours ELSE 0 - 60 * label.hours

\* the entry the backend stores for an inserted body: the wall-clock
\* dateTime is read in the body's timeZone
Stored(body) ==
    [summary |-> body.summary,
     description |-> body.description,
     start |-> [dateTime |-> TotalMinutes(body.start.dateTime)
                             - LabelOffset(body.start.timeZone),
                timeZone |-> body.start.timeZone],
     end |-> [dateTime |-> TotalMinutes(body.end.dateTime)
                           - LabelOffset(body.end.timeZone),
              timeZone |-> body.end.timeZone]]

InsertNothing(cal, e, off) == cal

\* the store keeps its entries by start time (orderBy='startTime')
InsertEntry(cal, e, off) ==
    LET k == Cardinality({i \in DOMAIN cal :
                             Instant(cal[i].start, off) <= Instant(e.start, off)})
    IN  SubSeq(cal, 1, k) \o <<e>> \o SubSeq(cal, k + 1, Len(cal))

Take(s, n) == SubSeq(s, 1, IF Len(s) < n THEN Len(s) ELSE n)

\* events().list(timeMin, timeMax, maxResults, singleEvents, orderBy): one
\* page of the entries that end after timeMin and start before timeMax
ListPage(cal, time_min, time_max, off) ==
    LET InWindow(e) == /\ Instant(e.end, off) > time_min
                       /\ Instant(e.start, off) < time_max
    IN  Take(SelectSeq(cal, InWindow), maxResults)

-----------------------------------------------------------------------------
(* get_calendar_events: the filter over the returned items *)

\* day_start.astimezone(timezone.utc): minutes, UTC
ToUtc(dt, off) == TotalMinutes(dt) - off

\* datetime.fromisoformat(...).astimezone(): back to local wall-clock time
ToLocal(instant, off) ==
    LET t == instant + off
    IN  DateTime(t \div 1440, (t % 1440) \div 60, t % 60, 0, 0)

\* start_time_str and end_time_str
HasEitherTime(event) ==
    \/ "dateTime" \in DOMAIN Get(event, "start", <<>>)
    \/ "dateTime" \in DOMAIN Get(event, "end", <<>>)
HasBothTimes(event) ==
    /\ "dateTime" \in DOMAIN Get(event, "start", <<>>)
    /\ "dateTime" \in DOMAIN Get(event, "end", <<>>)

Simplified(event, off) ==
    [summary |-> Get(event, "summary", "Untitled Event"),
     start_time |-> Format12(ToLocal(Instant(event.start, off), off)),
     end_time |-> Format12(ToLocal(Instant(event.end, off), off))]

RECURSIVE FilterEvents(_, _)
FilterEvents(events, off) ==
    IF events = <<>> THEN <<>>
    ELSE (IF HasBothTimes(Head(events))
          THEN <<Simplified(Head(events), off)>> ELSE <<>>)
         \o FilterEvents(Tail(events), off)

-----------------------------------------------------------------------------
(* Pieces shared by the two tool functions *)

NoLocals == [op |-> "none"]

Call(name, ok) == [call |-> name, ok |-> ok]

\* await params.llm.push_frame(TTSSpeakFrame(f"... {date_description}"))
SpeakNothing(text, description) == <<>>
Speak(text, description) ==
    <<[call |-> "push_frame", ok |-> TRUE, text |-> text, about |-> description]>>

\* the try: ... except Exception as e: of each tool function encloses every
\* call the function makes
CaughtAfterCredentials(site) == site # "get_google_credentials"
CaughtExceptInsert(site) == site # "events.insert"
Caught(site) == TRUE

\* if customer_email: a non-empty address
NotifiesAlways(customer_email) == TRUE
Notifies(customer_email) == customer_email # ""

\* email_sent = True is the statement after the send
EmailSentOnAttempt(outcome) == TRUE
EmailSent(outcome) == outcome = "sent"

\* event_end = event_start + timedelta(minutes=duration_minutes)
EventEndDefault(event_start, duration_minutes) == AddMinutes(event_start, 60)
EventEnd(event_start, duration_minutes) == AddMinutes(event_start, duration_minutes)

-----------------------------------------------------------------------------
(* Inputs: date tokens and clock readings *)

WeekdayNames == <<monday, tuesday, wednesday, thursday, friday, saturday, sunday>>
blorp == <<"b","l","o","r","p">>

ToUpper ==
    [c \in {LowerCase[i] : i \in DOMAIN LowerCase} |->
        UpperCase[CHOOSE i \in DOMAIN LowerCase : LowerCase[i] = c]]
UpperChar(c) == IF c \in DOMAIN ToUpper THEN ToUpper[c] ELSE c
Upper(s) == [i \in DOMAIN s |-> UpperChar(s[i])]
Pad(s) == <<" ">> \o s \o <<"\t", " ">>

PlainTokens ==
    {today, nowTok, tomorrow, yesterday, nextWeek, nextweek}
    \cup {WeekdayNames[i] : i \in 1..7}
    \cup {nextPrefix \o WeekdayNames[i] : i \in 1..7}
    \cup {blorp, <<>>, <<"f","r","i">>, <<"n","e","x","t">>,
          <<"n","e","x","t"," "," ">> \o friday,
          <<"i","n"," ","2"," ","d","a","y","s">>}

DateTokens == PlainTokens \cup {Pad(t) : t \in PlainTokens} \cup {Upper(t) : t \in PlainTokens}

TimesOfDay == {<<0, 0, 0, 0>>, <<13, 45, 30, 500>>, <<23, 59, 59, 999999>>}

Nows ==
    {DateTime(d, t[1], t[2], t[3], t[4]) :
        d \in FirstDay..(FirstDay + NowDays - 1), t \in TimesOfDay}

-----------------------------------------------------------------------------
(* Direct calls of parse_relative_date *)

IdleCall ==
    /\ pc = "idle"
    /\ arguments = <<>>
    /\ locals = NoLocals
    /\ log = <<>>
    /\ results = <<>>
    /\ returned = <<>>
    /\ raised = FALSE
    /\ invocations = 0
    /\ history = [initial |-> Len(calendar), successes |-> 0]

InitResolve ==
    /\ now \in Nows
    /\ utcoffset = 0
    /\ calendar = <<>>
    /\ calendar0 = <<>>
    /\ outbox = <<>>
    /\ IdleCall
    /\ date_description = None
    /\ window = None

Resolve ==
    \E token \in DateTokens :
        /\ date_description' = token
        /\ window' = parse_relative_date(token, now)
        /\ UNCHANGED <<now, utcoffset, calendar, outbox, pc, arguments, locals, log,
                       results, returned, raised, calendar0, invocations,
                       history>>

NextResolve == Resolve

SpecResolve == InitResolve /\ [][NextResolve]_vars

-----------------------------------------------------------------------------
(* Claims about parse_relative_date, checked under SpecResolve *)

\* the token as the resolver matches it: case-insensitive, trimmed
Normal(token) == Strip(Lower(token))

\* the tokens the specification lists as recognized
ListedTokens ==
    {today, nowTok, tomorrow, yesterday, nextWeek}
    \cup {WeekdayNames[i] : i \in 1..7}
    \cup {nextPrefix \o WeekdayNames[i] : i \in 1..7}

\* C3: for a weekday token W, bare or prefixed with "next ", the window starts on
\* the day at offset d from now, where d is the smallest strictly positive
\* offset with (now.weekday() + d) mod 7 = W: d is in 1..7, the day is a W, and
\* d = 7 when now is already a W.
C3_WeekdayOffset ==
    window # None =>
        \A W \in 0..6 :
            Normal(date_description) \in
                {WeekdayNames[W + 1], nextPrefix \o WeekdayNames[W + 1]} =>
            LET d == window[1].day - now.day
            IN  /\ d \in 1..7
                /\ (weekday(now) + d) % 7 = W
                /\ \A k \in 1..(d - 1) : (weekday(now) + k) % 7 # W
                /\ weekday(window[1]) = W
                /\ (weekday(now) = W => d = 7)

C3_Witness ==
    /\ window # None
    /\ date_description = friday
    /\ weekday(now) = 4
    /\ window[1].day = now.day + 7

\* C4: every window returned satisfies start < end, end - start = 24 hours
\* exactly, and start is midnight (hour, minute, second, microsecond all 0).
C4_DayWindow ==
    window # None =>
        LET start == window[1]
            end == window[2]
        IN  /\ TotalMinutes(start) < TotalMinutes(end)
            /\ TotalMinutes(end) - TotalMinutes(start) = 24 * 60
            /\ end.second = start.second
            /\ end.microsecond = start.microsecond
            /\ start.hour = 0 /\ start.minute = 0
            /\ start.second = 0 /\ start.microsecond = 0

C4_Witness ==
    /\ window # None
    /\ now.hour = 13 /\ now.second = 30 /\ now.microsecond = 500
    /\ date_description = tomorrow
    /\ window[1] = DateTime(now.day + 1, 0, 0, 0, 0)
    /\ window[2] = DateTime(now.day + 2, 0, 0, 0, 0)

\* C5: for every weekday name W and every now, "next " + W resolves to the
\* window W resolves to.
C5_NextPrefixSame ==
    window # None =>
        (Lower(date_description) \in {WeekdayNames[i] : i \in 1..7} =>
            parse_relative_date(nextPrefix \o date_description, now) = window)

C5_Witness ==
    /\ window # None
    /\ date_description = friday
    /\ weekday(now) = 2
    /\ window[1].day = now.day + 2

\* C6 as stated: every token that is not one of the listed recognized tokens
\* (after lowercasing and trimming) resolves to the window of "today".
C6_UnlistedIsToday ==
    window # None =>
        (Normal(date_description) \notin ListedTokens =>
            window = parse_relative_date(today, now))

\* C6 amended: every token that is neither a listed recognized token nor
\* "nextweek" (after lowercasing and trimming) resolves to the window of
\* "today"; "nextweek" resolves like "next week".
C6_UnrecognizedIsToday ==
    window # None =>
        /\ (Normal(date_description) \notin ListedTokens \cup {nextweek} =>
                window = parse_relative_date(today, now))
        /\ (Normal(date_description) = nextweek =>
                window = parse_relative_date(nextWeek, now))

C6_Witness ==
    /\ window # None
    /\ date_description = blorp
    /\ now.hour = 13
    /\ window[1] = DateTime(now.day, 0, 0, 0, 0)

-----------------------------------------------------------------------------
(* Tool calls: inputs *)

time1400 == <<"1","4",":","0","0">>
time2000 == <<"2","0",":","0","0">>
time0900 == <<"0","9",":","0","0">>
time9am == <<"9","a","m">>
time14 == <<"1","4">>
time123 == <<"1",":","2",":","3">>
time2500 == <<"2","5",":","0","0">>

StartTimes == {time1400, time2000, time9am, time14, time123, time2500}

ToolTokens == {friday, Pad(Upper(nextPrefix \o friday)), saturday, blorp}

Emails == {"x@example.com", ""}

\* params.arguments of a booking: every key, the required keys only, no key
BookArguments ==
    {[title |-> "Appointment with Jane", date_description |-> d, start_time |-> t,
      duration_minutes |-> 30, description |-> "Tax consultation",
      customer_email |-> e] : d \in ToolTokens, t \in StartTimes, e \in Emails}
    \cup {[title |-> "Appointment with Jane", date_description |-> d,
           start_time |-> t, customer_email |-> "x@example.com"] :
             d \in {friday}, t \in StartTimes}
    \cup {<<>>}

ListArguments == {[date_description |-> d] : d \in ToolTokens} \cup {<<>>}

-----------------------------------------------------------------------------
(* Tool calls: how a call ends *)

\* await params.result_callback(result); return result
Finish(result) ==
    /\ results' = Append(results, result)
    /\ returned' = <<result>>
    /\ log' = Append(log, Call("result_callback", TRUE))
    /\ pc' = "done"
    /\ UNCHANGED raised

\* an external call failed at `site`: the except clause reports error_result
\* when the try statement encloses the site
FailRetryingInsert(site, error_result) ==
    IF site = "events.insert" /\ \A i \in DOMAIN log : log[i].call # site
    THEN /\ log' = Append(log, Call(site, FALSE))
         /\ UNCHANGED <<pc, results, returned, raised>>
    ELSE /\ results' = Append(results, error_result)
         /\ returned' = <<error_result>>
         /\ log' = log \o <<Call(site, FALSE), Call("result_callback", TRUE)>>
         /\ pc' = "done"
         /\ UNCHANGED raised
Fail(site, error_result) ==
    IF Caught(site)
    THEN /\ results' = Append(results, error_result)
         /\ returned' = <<error_result>>
         /\ log' = log \o <<Call(site, FALSE), Call("result_callback", TRUE)>>
         /\ pc' = "done"
         /\ UNCHANGED raised
    ELSE /\ raised' = TRUE
         /\ log' = Append(log, Call(site, FALSE))
         /\ pc' = "done"
         /\ UNCHANGED <<results, returned>>

\* the framework dispatches the next tool call of the conversation
Begin ==
    /\ pc = "idle"
    /\ invocations < MaxInvocations
    /\ invocations' = invocations + 1
    /\ UNCHANGED <<now, utcoffset, calendar0, date_description, window, history>>

Step(at) ==
    /\ pc = at
    /\ UNCHANGED <<now, utcoffset, arguments, calendar0, invocations,
                   date_description, window, history>>

-----------------------------------------------------------------------------
(* get_calendar_events *)

\* lines 142-156: arguments, acknowledgment, window, UTC bounds
StartList ==
    \E args \in ListArguments :
        LET description == Get(args, "date_description", today)
            w == parse_relative_date(description, now)
        IN  /\ Begin
            /\ arguments' = args
            /\ locals' = [op |-> "list",
                          date_description |-> description,
                          day_start |-> w[1],
                          day_end |-> w[2],
                          time_min |-> ToUtc(w[1], utcoffset),
                          time_max |-> ToUtc(w[2], utcoffset)]
            /\ log' = Speak("Let me check the advisor's availability for ", description)
            /\ results' = <<>>
            /\ returned' = <<>>
            /\ pc' = "list_credentials"
            /\ UNCHANGED raised
            /\ UNCHANGED <<calendar, outbox>>

\* lines 158-160: get_google_credentials() and build('calendar', ...)
ListCredentials ==
    /\ Step("list_credentials")
    /\ UNCHANGED <<calendar, outbox, locals>>
    /\ \/ /\ log' = Append(log, Call("get_google_credentials", TRUE))
          /\ pc' = "list_events"
          /\ UNCHANGED <<results, returned, raised>>
       \/ Fail("get_google_credentials", ErrorRetrievingResult("FileNotFoundError"))

\* lines 162-202: events().list(...).execute(), the filter, the result
ListEvents ==
    /\ Step("list_events")
    /\ UNCHANGED <<calendar, outbox>>
    /\ \/ LET events == ListPage(calendar, locals.time_min, locals.time_max, utcoffset)
              filtered_events == FilterEvents(events, utcoffset)
          IN  /\ locals' = locals @@ [events |-> events,
                                      filtered_events |-> filtered_events]
              /\ results' = Append(results, EventsResult(filtered_events))
              /\ returned' = <<EventsResult(filtered_events)>>
              /\ log' = log \o <<Call("events.list", TRUE), Call("result_callback", TRUE)>>
              /\ pc' = "done"
              /\ UNCHANGED raised
       \/ /\ Fail("events.list", ErrorRetrievingResult("HttpError"))
          /\ UNCHANGED locals

-----------------------------------------------------------------------------
(* create_calendar_event *)

\* lines 225-267: arguments, acknowledgment, day, start and end, zone label.
\* duration_minutes is the JSON integer of the tool schema (or the default
\* 60), which int() returns unchanged.
StartBook ==
    \E args \in BookArguments :
        LET title == Get(args, "title", "Untitled Event")
            description == Get(args, "date_description", today)
            start_time == Get(args, "start_time", time0900)
            duration_minutes == Get(args, "duration_minutes", 60)
            notes == Get(args, "description", "")
            customer_email == Get(args, "customer_email", "")
            day_start == parse_relative_date(description, now)[1]
            t == ParseTime(start_time)
            event_start == [day_start EXCEPT !.hour = t.hour, !.minute = t.minute]
            event_end == EventEnd(event_start, duration_minutes)
            local_tz_str == LocalTzStr(utcoffset)
            extracted == [op |-> "book",
                          title |-> title,
                          date_description |-> description,
                          start_time |-> start_time,
                          duration_minutes |-> duration_minutes,
                          description |-> notes,
                          customer_email |-> customer_email,
                          day_start |-> day_start]
        IN  /\ Begin
            /\ arguments' = args
            /\ UNCHANGED <<calendar, outbox, raised>>
            /\ IF ~t.ok
               THEN /\ locals' = extracted
                    /\ results' = <<InvalidTimeResult(start_time)>>
                    /\ returned' = <<InvalidTimeResult(start_time)>>
                    /\ log' = Speak("Booking your appointment for ", description)
                              \o <<Call("result_callback", TRUE)>>
                    /\ pc' = "done"
               ELSE /\ locals' = extracted @@
                                 [event_start |-> event_start,
                                  event_end |-> event_end,
                                  local_tz_str |-> local_tz_str,
                                  start_rfc3339 |-> Rfc3339(event_start),
                                  end_rfc3339 |-> Rfc3339(event_end)]
                    /\ results' = <<>>
                    /\ returned' = <<>>
                    /\ log' = Speak("Booking your appointment for ", description)
                    /\ pc' = "book_credentials"

\* lines 273-285: the event body
EventBody(l) ==
    [summary |-> l.title,
     description |-> l.description,
     start |-> [dateTime |-> l.start_rfc3339, timeZone |-> l.local_tz_str],
     end |-> [dateTime |-> l.end_rfc3339, timeZone |-> l.local_tz_str]]

\* lines 269-285: get_google_credentials(), build('calendar', ...), the body
BookCredentials ==
    /\ Step("book_credentials")
    /\ UNCHANGED <<calendar, outbox>>
    /\ \/ /\ log' = Append(log, Call("get_google_credentials", TRUE))
          /\ locals' = locals @@ [event |-> EventBody(locals)]
          /\ pc' = "book_insert"
          /\ UNCHANGED <<results, returned, raised>>
       \/ /\ Fail("get_google_credentials", ErrorCreatingResult("FileNotFoundError"))
          /\ UNCHANGED locals

\* lines 287-292 (and 364-374 when no address was given):
\* events().insert(calendarId='primary', body=event).execute()
BookInsert ==
    /\ Step("book_insert")
    /\ UNCHANGED outbox
    /\ \/ /\ calendar' = InsertEntry(calendar, Stored(locals.event), utcoffset)
          /\ locals' = locals @@ [email_sent |-> FALSE]
          /\ IF Notifies(locals.customer_email)
             THEN /\ log' = Append(log, Call("events.insert", TRUE))
                  /\ pc' = "book_notify"
                  /\ UNCHANGED <<results, returned, raised>>
             ELSE /\ results' = Append(results,
                                       SuccessResult(locals.title, locals.event_start,
                                                     locals.event_end, FALSE,
                                                     locals.customer_email))
                  /\ returned' = <<SuccessResult(locals.title, locals.event_start,
                                                 locals.event_end, FALSE,
                                                 locals.customer_email)>>
                  /\ log' = log \o <<Call("events.insert", TRUE),
                                     Call("result_callback", TRUE)>>
                  /\ pc' = "done"
                  /\ UNCHANGED raised
       \/ /\ Fail("events.insert", ErrorCreatingResult("HttpError"))
          /\ UNCHANGED <<calendar, locals>>

\* lines 298-350: the confirmation message
Message(l) ==
    [To |-> l.customer_email,
     From |-> "me",
     date |-> l.event_start.day,
     time |-> <<Format12(l.event_start), Format12(l.event_end)>>,
     duration |-> l.duration_minutes,
     location |-> "Tax Advisor's Office"]

\* what the try block of lines 293-359 did before it ended
EmailCalls(outcome) ==
    IF outcome = "build_raised" THEN <<Call("gmail.build", FALSE)>>
    ELSE IF outcome = "message_raised"
         THEN <<Call("gmail.build", TRUE), Call("message.as_bytes", FALSE)>>
    ELSE IF outcome = "send_raised"
         THEN <<Call("gmail.build", TRUE), Call("message.as_bytes", TRUE),
                Call("messages.send", FALSE)>>
    ELSE <<Call("gmail.build", TRUE), Call("message.as_bytes", TRUE),
           Call("messages.send", TRUE)>>

\* lines 292-374: the confirmation e-mail, its except clause, the result
BookNotify ==
    /\ Step("book_notify")
    /\ UNCHANGED <<calendar, raised>>
    /\ \E outcome \in {"build_raised", "message_raised", "send_raised", "sent"} :
        LET email_sent == EmailSent(outcome)
            result == SuccessResult(locals.title, locals.event_start, locals.event_end,
                                    email_sent, locals.customer_email)
        IN  /\ outbox' = IF outcome = "sent" THEN Append(outbox, Message(locals))
                         ELSE outbox
            /\ locals' = [locals EXCEPT !.email_sent = email_sent]
            /\ results' = Append(results, result)
            /\ returned' = <<result>>
            /\ log' = log \o EmailCalls(outcome) \o <<Call("result_callback", TRUE)>>
            /\ pc' = "done"

-----------------------------------------------------------------------------
(* The conversation: tool calls one at a time *)

Wednesday1345 == DateTime(9, 13, 45, 30, 500)
Friday2359 == DateTime(11, 23, 59, 59, 999999)

TimedEntry(summary, from, to) ==
    [summary |-> summary, start |-> [dateTime |-> from], end |-> [dateTime |-> to]]
UntitledEntry(from, to) ==
    [start |-> [dateTime |-> from], end |-> [dateTime |-> to]]
AllDayEntry(summary, day) ==
    [summary |-> summary, start |-> [date |-> day], end |-> [date |-> day + 1]]
\* an entry with a start time of day only
OpenEndedEntry(summary, from, day) ==
    [summary |-> summary, start |-> [dateTime |-> from], end |-> [date |-> day + 1]]

RECURSIVE Calendar(_, _)
Calendar(entries, off) ==
    IF entries = <<>> THEN <<>>
    ELSE InsertEntry(Calendar(Tail(entries), off), Head(entries), off)

\* entries of Friday (day 11) in a zone `off` minutes east of UTC; local
\* time of day h:m on that day is the instant At(11, h, m, off)
At(day, h, m, off) == day * 1440 + h * 60 + m - off

SomeEntries(off) ==
    <<AllDayEntry("Public holiday", 11),
      TimedEntry("Client Meeting - Maria Garcia", At(11, 10, 0, off), At(11, 11, 0, off))>>

Environments ==
    {[now |-> Wednesday1345, utcoffset |-> 120, calendar |-> <<>>],
     [now |-> Wednesday1345, utcoffset |-> -300,
      calendar |-> Calendar(SomeEntries(-300), -300)],
     [now |-> Friday2359, utcoffset |-> 330,
      calendar |-> Calendar(SomeEntries(330), 330)],
     [now |-> Friday2359, utcoffset |-> -210, calendar |-> <<>>]}

\* the return value starts with the literal of the success result
StartsWith(result, piece) == result.text[1] = piece

ReturnedSuccess ==
    returned # <<>> /\ StartsWith(returned[1], "Event created successfully: '")

\* the tool function has returned (or raised) into the framework, which
\* serializes tool calls: the next one starts from a fresh frame
Return ==
    /\ pc = "done"
    /\ pc' = "idle"
    /\ arguments' = <<>>
    /\ locals' = NoLocals
    /\ log' = <<>>
    /\ results' = <<>>
    /\ returned' = <<>>
    /\ raised' = FALSE
    /\ calendar0' = calendar
    /\ history' = [history EXCEPT
                     !.successes = @ + (IF ReturnedSuccess THEN 1 ELSE 0)]
    /\ UNCHANGED <<now, utcoffset, calendar, outbox, invocations,
                   date_description, window>>

Init ==
    /\ \E env \in Environments :
        /\ now = env.now
        /\ utcoffset = env.utcoffset
        /\ calendar = env.calendar
        /\ calendar0 = env.calendar
    /\ outbox = <<>>
    /\ IdleCall
    /\ date_description = None
    /\ window = None

Next ==
    \/ StartList
    \/ ListCredentials
    \/ ListEvents
    \/ StartBook
    \/ BookCredentials
    \/ BookInsert
    \/ BookNotify
    \/ Return

Spec == Init /\ [][Next]_vars

-----------------------------------------------------------------------------
(* Availability queries alone, over crowded calendars *)

\* entries around Friday (day 11): all-day, timed, untitled, with a start
\* time only, across midnight from Thursday, and on Saturday
Pool(off) ==
    <<AllDayEntry("Public holiday", 11),
      TimedEntry("Client Meeting - Maria Garcia", At(11, 10, 0, off), At(11, 11, 0, off)),
      UntitledEntry(At(11, 14, 0, off), At(11, 14, 30, off)),
      OpenEndedEntry("Workshop", At(11, 16, 0, off), 11),
      TimedEntry("Late call", At(10, 23, 30, off), At(11, 0, 30, off)),
      TimedEntry("Weekend", At(12, 9, 0, off), At(12, 10, 0, off))>>

RECURSIVE Pick(_, _)
Pick(pool, chosen) ==
    IF pool = <<>> THEN <<>>
    ELSE (IF Len(pool) \in chosen THEN <<pool[Len(pool)]>> ELSE <<>>)
         \o Pick(SubSeq(pool, 1, Len(pool) - 1), chosen)

\* n all-day entries on Friday and one appointment at 10:00
Crowded(n, off) ==
    [i \in 1..n |-> AllDayEntry("Public holiday", 11)]
    \o <<TimedEntry("Client Meeting - Maria Garcia",
                    At(11, 10, 0, off), At(11, 11, 0, off))>>

ListCalendars(off) ==
    {Calendar(Pick(Pool(off), chosen), off) : chosen \in SUBSET (1..Len(Pool(off)))}
    \cup {Crowded(n, off) : n \in {maxResults - 1, maxResults}}

InitList ==
    /\ now = Wednesday1345
    /\ utcoffset \in {120, -300}
    /\ calendar \in ListCalendars(utcoffset)
    /\ calendar0 = calendar
    /\ outbox = <<>>
    /\ IdleCall
    /\ date_description = None
    /\ window = None

NextList ==
    \/ StartList
    \/ ListCredentials
    \/ ListEvents
    \/ Return

SpecList == InitList /\ [][NextList]_vars

-----------------------------------------------------------------------------
(* Claims about the tool calls *)

Called(name) == \E i \in DOMAIN log : log[i].call = name
Succeeded(name) == \E i \in DOMAIN log : log[i].call = name /\ log[i].ok
Failed(name) == \E i \in DOMAIN log : log[i].call = name /\ ~log[i].ok

BackendCalls ==
    {"get_google_credentials", "events.list", "events.insert", "gmail.build",
     "messages.send"}

\* a start_time with a non-numeric component or not exactly two components
Malformed(start_time) ==
    LET parts == Split(start_time, ":")
    IN  \/ Len(parts) # 2
        \/ \E i \in DOMAIN parts : ~IsIntLiteral(parts[i])

\* C1: a booking whose start_time is malformed ends with the one result
\* "Invalid time format: <input>...", makes no backend call (no credentials,
\* no insert, no e-mail send) and leaves the calendar and the outbox as they were.
C1_InvalidTime ==
    (/\ locals.op = "book"
     /\ "start_time" \in DOMAIN arguments
     /\ Malformed(arguments.start_time)) =>
        /\ pc = "done"
        /\ Len(results) = 1
        /\ returned = results
        /\ Contains(results[1], "Invalid time format: ")
        /\ results[1].values = <<arguments.start_time>>
        /\ \A i \in DOMAIN log : log[i].call \notin BackendCalls
        /\ calendar = calendar0
        /\ ~raised

C1_Witness ==
    /\ pc = "done"
    /\ locals.op = "book"
    /\ arguments # <<>>
    /\ arguments.start_time = time9am
    /\ Contains(results[1], "Invalid time format: ")
    /\ calendar # <<>>
    /\ calendar = calendar0

\* C2: when an address was given, the insert succeeded and building or
\* sending the e-mail raised, the booking still ends with the one result
\* "Event created successfully ..." without "Confirmation email sent",
\* email_sent is false, and the created entry stays in the calendar.
C2_PartialSuccess ==
    (/\ pc = "done"
     /\ locals.op = "book"
     /\ Succeeded("events.insert")
     /\ locals.customer_email # ""
     /\ \/ Failed("gmail.build")
        \/ Failed("message.as_bytes")
        \/ Failed("messages.send")) =>
        /\ Len(results) = 1
        /\ returned = results
        /\ Contains(results[1], "Event created successfully: '")
        /\ ~Contains(results[1], ". Confirmation email sent to ")
        /\ locals.email_sent = FALSE
        /\ ~raised
        /\ Len(calendar) = Len(calendar0) + 1
        /\ \E k \in DOMAIN calendar :
            /\ calendar[k].summary = locals.title
            /\ calendar[k].start.timeZone = locals.local_tz_str
            /\ calendar0 = SubSeq(calendar, 1, k - 1)
                           \o SubSeq(calendar, k + 1, Len(calendar))

C2_Witness ==
    /\ pc = "done"
    /\ locals.op = "book"
    /\ Succeeded("events.insert")
    /\ Failed("messages.send")
    /\ Contains(results[1], "Event created successfully: '")
    /\ Len(calendar) = Len(calendar0) + 1

\* C7: the body submitted to the calendar starts on the resolved day at the
\* parsed hour and minute of start_time and ends duration_minutes (default
\* 60) later.
C7_SubmittedTimes ==
    (locals.op = "book" /\ "event" \in DOMAIN locals) =>
        LET start == locals.event.start.dateTime
            end == locals.event.end.dateTime
            parts == Split(Get(arguments, "start_time", time0900), ":")
            day == parse_relative_date(Get(arguments, "date_description", today), now)[1]
        IN  /\ start.day = day.day
            /\ start.hour = IntValue(parts[1])
            /\ start.minute = IntValue(parts[2])
            /\ start.second = 0
            /\ TotalMinutes(end) - TotalMinutes(start)
                   = Get(arguments, "duration_minutes", 60)
            /\ end.second = 0
            /\ end.hour \in 0..23 /\ end.minute \in 0..59

C7_Witness ==
    /\ now = Wednesday1345
    /\ locals.op = "book"
    /\ arguments # <<>>
    /\ arguments.date_description = friday
    /\ arguments.start_time = time1400
    /\ Get(arguments, "duration_minutes", 60) = 30
    /\ Succeeded("events.insert")
    /\ locals.event.start.dateTime = [day |-> 11, hour |-> 14, minute |-> 0, second |-> 0]
    /\ locals.event.end.dateTime = [day |-> 11, hour |-> 14, minute |-> 30, second |-> 0]

\* the entries with both a start and an end time of day, as listed
BothTimes(e) ==
    /\ "start" \in DOMAIN e /\ "dateTime" \in DOMAIN e.start
    /\ "end" \in DOMAIN e /\ "dateTime" \in DOMAIN e.end
Listed(entries) ==
    LET timed == SelectSeq(entries, BothTimes)
    IN  [i \in DOMAIN timed |-> Simplified(timed[i], utcoffset)]

\* the entries of the calendar that fall in the queried window
InQueriedWindow(e) ==
    /\ Instant(e.end, utcoffset) > locals.time_min
    /\ Instant(e.start, utcoffset) < locals.time_max
WindowEntries == SelectSeq(calendar, InQueriedWindow)

ListedOk == pc = "done" /\ locals.op = "list" /\ Succeeded("events.list")

\* C8 as stated: the result holds exactly the entries of the window that have
\* both a start and an end time of day, however many entries the window holds.
C8_EveryTimedEntryListed ==
    ListedOk => results[1].values[1] = Listed(WindowEntries)

\* C8 amended: the result holds exactly the entries with both a start and an
\* end time of day among the entries the backend returned, which are the
\* first 50 (maxResults) entries of the window by start time; timed entries
\* of the window beyond the first 50 entries are not listed.
C8_TimedOfFirstPage ==
    ListedOk =>
        /\ locals.events = Take(WindowEntries, maxResults)
        /\ results[1].values[1] = Listed(locals.events)
        /\ Len(results) = 1

C8_Witness ==
    /\ ListedOk
    /\ \E i \in DOMAIN locals.events : ~BothTimes(locals.events[i])
    /\ \E i \in DOMAIN locals.events : BothTimes(locals.events[i])
    /\ Len(results[1].values[1]) = 2
    /\ Len(locals.events) = 4

\* C9: a failure of credential acquisition, of the calendar list or of the
\* calendar insert never leaves the tool function as an exception: the call
\* ends with the one result "Error retrieving calendar events: ..." (list) or
\* "Error creating calendar event: ..." (book).
C9_FailuresReported ==
    /\ ~raised
    /\ (\/ Failed("get_google_credentials")
        \/ Failed("events.list")
        \/ Failed("events.insert")) =>
            /\ pc = "done"
            /\ Len(results) = 1
            /\ returned = results
            /\ Contains(results[1],
                        IF locals.op = "list" THEN "Error retrieving calendar events: "
                        ELSE "Error creating calendar event: ")

C9_Witness ==
    /\ pc = "done"
    /\ locals.op = "book"
    /\ Failed("events.insert")
    /\ Contains(results[1], "Error creating calendar event: ")
    /\ ~raised

\* C10: in every tool call the acknowledgment is the first thing emitted, so
\* it precedes every backend call of that call, whether the backend call
\* succeeds or fails.
C10_AckFirst ==
    /\ pc # "idle" =>
        /\ log # <<>>
        /\ log[1].call = "push_frame"
        /\ log[1].text = (IF locals.op = "list"
                          THEN "Let me check the advisor's availability for "
                          ELSE "Booking your appointment for ")
    /\ \A i \in DOMAIN log :
        log[i].call \in BackendCalls =>
            \E j \in 1..(i - 1) : log[j].call = "push_frame"

C10_Witness ==
    /\ pc = "done"
    /\ locals.op = "list"
    /\ Failed("events.list")
    /\ log[1].call = "push_frame"
    /\ log[3].call = "events.list"

\* C11: every tool call hands exactly one result string to result_callback,
\* the string it returns, on every path (success, invalid time format,
\* backend failure), and none before it ends.
C11_OneResult ==
    /\ pc = "done" =>
        /\ Len(results) = 1
        /\ returned = results
        /\ Cardinality({i \in DOMAIN log : log[i].call = "result_callback"}) = 1
        /\ log[Len(log)].call = "result_callback"
        /\ ~raised
    /\ pc # "done" =>
        /\ results = <<>>
        /\ \A i \in DOMAIN log : log[i].call # "result_callback"

C11_Witness ==
    /\ pc = "done"
    /\ locals.op = "list"
    /\ Failed("get_google_credentials")
    /\ Len(results) = 1
    /\ Contains(results[1], "Error retrieving calendar events: ")

\* the steps of a booking in the order PARSE_TIME, BUILD_EVENT, SUBMIT,
\* NOTIFY, DONE
BookingOrder ==
    <<"push_frame", "get_google_credentials", "events.insert", "gmail.build",
      "message.as_bytes", "messages.send", "result_callback">>
Position(call) == CHOOSE k \in DOMAIN BookingOrder : BookingOrder[k] = call

\* C12: within one booking the calls are made in the order of the flow and
\* none twice, so the insert is issued at most once; when it fails the
\* booking ends at once with the result "Error creating calendar event: ...",
\* no e-mail call is made and the calendar is as before.
C12_NoRetry ==
    locals.op = "book" =>
        /\ \A i, j \in DOMAIN log :
            i < j => Position(log[i].call) < Position(log[j].call)
        /\ Cardinality({i \in DOMAIN log : log[i].call = "events.insert"}) <= 1
        /\ Failed("events.insert") =>
            /\ pc = "done"
            /\ ~Called("gmail.build") /\ ~Called("messages.send")
            /\ Len(results) = 1
            /\ Contains(results[1], "Error creating calendar event: ")
            /\ calendar = calendar0

C12_Witness ==
    /\ pc = "done"
    /\ locals.op = "book"
    /\ locals.customer_email # ""
    /\ Failed("events.insert")
    /\ log[Len(log) - 1].call = "events.insert"
    /\ calendar = calendar0

\* C13: a booking attempts the confirmation e-mail exactly when a non-empty
\* customer_email was given and its insert succeeded; it sends at most once,
\* and without an address it succeeds with no e-mail call at all.
C13_NotifyIffAddress ==
    (locals.op = "book" /\ pc = "done") =>
        /\ Called("gmail.build") <=>
            (Get(arguments, "customer_email", "") # "" /\ Succeeded("events.insert"))
        /\ \A name \in {"message.as_bytes", "messages.send"} :
            Called(name) => Succeeded("gmail.build")
        /\ Cardinality({i \in DOMAIN log : log[i].call = "messages.send"}) <= 1
        /\ (Get(arguments, "customer_email", "") = "" /\ Succeeded("events.insert")) =>
            /\ Contains(results[1], "Event created successfully: '")
            /\ ~Contains(results[1], ". Confirmation email sent to ")
            /\ \A i \in DOMAIN log :
                log[i].call \notin {"gmail.build", "message.as_bytes", "messages.send"}

C13_Witness ==
    /\ pc = "done"
    /\ locals.op = "book"
    /\ arguments # <<>>
    /\ arguments.customer_email = ""
    /\ Succeeded("events.insert")
    /\ ~Called("gmail.build")
    /\ Contains(results[1], "Event created successfully: '")

\* a start_time of two integer components in the range of a time of day
WellFormed(start_time) ==
    LET parts == Split(start_time, ":")
    IN  /\ Len(parts) = 2
        /\ \A i \in DOMAIN parts : IsIntLiteral(parts[i])
        /\ IntValue(parts[1]) \in 0..23
        /\ IntValue(parts[2]) \in 0..59

\* C14: a well-formed booking is never rejected for its day or hour: whatever
\* the weekday of the resolved day and the time of day, it builds the event,
\* submits it once the credentials are there, and ends with the success
\* result when the insert succeeds.
C14_NoBusinessHourCheck ==
    (locals.op = "book"
     /\ WellFormed(Get(arguments, "start_time", time0900))) =>
        /\ "event_start" \in DOMAIN locals
        /\ ~(pc = "done" /\ Contains(results[1], "Invalid time format: "))
        /\ Succeeded("get_google_credentials") => "event" \in DOMAIN locals
        /\ (pc = "done" /\ Succeeded("get_google_credentials")) => Called("events.insert")
        /\ (pc = "done" /\ Succeeded("events.insert")) =>
            /\ Contains(results[1], "Event created successfully: '")
            /\ Len(calendar) = Len(calendar0) + 1

C14_Witness ==
    /\ pc = "done"
    /\ locals.op = "book"
    /\ arguments # <<>>
    /\ arguments.date_description = saturday
    /\ arguments.start_time = time2000
    /\ weekday(locals.event_start) = 5
    /\ locals.event_start.hour = 20
    /\ Succeeded("events.insert")
    /\ Contains(results[1], "Event created successfully: '")

\* C15: the time zone label is computed from the local UTC offset cut to
\* whole hours toward zero: h hours east of UTC (h >= 0) give "Etc/GMT-" h,
\* h hours west give "Etc/GMT+" h, and the start and the end of the
\* submitted body carry that same label.
C15_ZoneLabel ==
    (locals.op = "book" /\ "local_tz_str" \in DOMAIN locals) =>
        /\ \E h \in 0..23 :
            \/ /\ utcoffset >= 0
               /\ 60 * h <= utcoffset /\ utcoffset < 60 * (h + 1)
               /\ locals.local_tz_str = [prefix |-> "Etc/GMT-", hours |-> h]
            \/ /\ utcoffset < 0
               /\ 60 * h <= 0 - utcoffset /\ 0 - utcoffset < 60 * (h + 1)
               /\ locals.local_tz_str =
                    IF h = 0 THEN [prefix |-> "Etc/GMT-", hours |-> 0]
                    ELSE [prefix |-> "Etc/GMT+", hours |-> h]
        /\ "event" \in DOMAIN locals =>
            /\ locals.event.start.timeZone = locals.local_tz_str
            /\ locals.event.end.timeZone = locals.local_tz_str

C15_Witness ==
    /\ locals.op = "book"
    /\ utcoffset = -210
    /\ Succeeded("events.insert")
    /\ locals.event.start.timeZone = [prefix |-> "Etc/GMT+", hours |-> 3]
    /\ locals.event.end.timeZone = [prefix |-> "Etc/GMT+", hours |-> 3]

\* C16: across the tool calls of a conversation, run one at a time, the
\* calendar has grown by exactly as many entries as calls have returned a
\* result starting with "Event created successfully"; a booking returns that
\* result exactly when its insert succeeded, and a booking that returns
\* "Invalid time format ..." or "Error creating calendar event: ..." has
\* left the calendar as it found it.
C16_CreatedEqualsSuccesses ==
    /\ pc = "idle" => Len(calendar) - history.initial = history.successes
    /\ pc = "done" =>
        Len(calendar) - history.initial
            = history.successes + (IF ReturnedSuccess THEN 1 ELSE 0)
    /\ (pc = "done" /\ locals.op = "book") =>
        /\ ReturnedSuccess <=> Succeeded("events.insert")
        /\ ReturnedSuccess => Len(calendar) = Len(calendar0) + 1
        /\ (StartsWith(returned[1], "Invalid time format: ")
            \/ StartsWith(returned[1], "Error creating calendar event: ")) =>
            /\ ~Succeeded("events.insert")
            /\ calendar = calendar0

C16_Witness ==
    /\ pc = "done"
    /\ locals.op = "book"
    /\ invocations = 2
    /\ history.successes = 1
    /\ StartsWith(returned[1], "Error creating calendar event: ")
    /\ Len(calendar) = history.initial + 1

=============================================================================
